---------------------------- MODULE Spec2Model ----------------------------
(***************************************************************************)
(* A model of the data-fetching core of daily_stock_analysis:              *)
(*   - RateLimiter and LongbridgeFetcher (data_provider/longbridge_fetcher) *)
(*   - ChromeFetcher (data_provider/chrome_fetcher)                         *)
(* Time is counted in ticks of 0.1 s (the limiter's safety margin).        *)
(***************************************************************************)
EXTENDS Naturals, Integers, Sequences, FiniteSets, TLC

VARIABLES
    \* ---- RateLimiter (shared by the limiter and the fetcher specifications)
    now,          \* time.time(), in ticks
    requests,     \* RateLimiter.requests: the deque of request timestamps
    history,      \* every timestamp acquire() ever appended, in append order
    tpc,          \* per thread: position inside acquire()
    tcur,         \* per thread: the local current_time
    twake,        \* per thread: earliest instant time.sleep() may return
    slept,        \* number of acquire() calls that had to sleep
    raced,        \* two acquire() calls have been under way at the same time
    \* ---- _convert_stock_code
    symIn,        \* the argument stock_code
    symOut,       \* _convert_stock_code(symIn)
    symOut2,      \* _convert_stock_code(symOut)
    symStep,      \* how many conversions were applied
    \* ---- LongbridgeFetcher
    creds,        \* which of the three credentials the configuration holds
    sdk,          \* how creating the QuoteContext ends
    api,          \* self._api: None or the QuoteContext
    priority,     \* self.priority
    fop,          \* the public operation in progress
    fpc,          \* the position inside it
    fargs,        \* its arguments
    attempt,      \* tenacity's attempt_number
    waits,        \* the waits tenacity slept between the attempts, seconds
    upErr,        \* the exception the last upstream call raised
    exc,          \* the exception propagating out of the function body
    fresult,      \* what the caller of the operation got
    opCalls,      \* upstream invocations made by the operation
    opReqs,       \* the limiter's queue when the operation started
    fops,         \* operations started so far
    symbols,      \* the symbols argument of a realtime quote operation
    lbsyms,       \* its longbridge_symbols list
    sent,         \* the symbol lists handed to quote() / calc_indexes()
    wargs,        \* group_name and group_id of get_watchlist_from_group
    wresp,        \* what watchlist() returned
    wret,         \* the list get_watchlist_from_group returned
    \* ---- ChromeFetcher
    today,        \* datetime.now().strftime('%Y-%m-%d'), as a day number
    cacheFile,    \* data/industry_sectors_cache.json
    cacheOp,      \* the last direct call of _save_cached_data/_get_cached_data
    wrote,        \* the rows and day of the write the file now holds
    pwInstalled,  \* whether playwright can be imported
    pwImported,   \* self._playwright_imported
    handles,      \* self.browser, self.context, self.page
    res,          \* the browser, context and page opened by the current call
    cpc,          \* the position inside get_industry_sectors
    all_sectors,  \* the accumulated rows
    page_num,     \* the page counter of the loop
    cresult,      \* what get_industry_sectors returned
    callHit,      \* the cache file was dated today when the call read it
    callOps,      \* browser, cache-write and except steps the current call has made
    lastData,     \* the rows of the latest extraction
    extracts,     \* extractions made by the current call
    \* ---- _normalize_data
    candles,      \* the rows of the DataFrame handed to _normalize_data
    normOut       \* what _normalize_data returned or raised

limVars == <<now, requests, history, tpc, tcur, twake, slept, raced>>
symVars == <<symIn, symOut, symOut2, symStep>>
rtVars == <<symbols, lbsyms, sent>>
wlVars == <<wargs, wresp, wret>>
fetchVars == <<creds, sdk, api, priority, fop, fpc, fargs, attempt, waits,
               upErr, exc, fresult, opCalls, opReqs, fops, rtVars, wlVars>>
cacheVars == <<today, cacheFile, cacheOp, wrote>>
scrapeVars == <<pwInstalled, pwImported, handles, res, cpc, all_sectors,
                page_num, cresult, callHit, callOps, lastData, extracts>>
chromeVars == <<cacheVars, scrapeVars>>
normVars == <<candles, normOut>>
vars == <<limVars, symVars, fetchVars, chromeVars, normVars>>

None == "None"

-----------------------------------------------------------------------------
(* RateLimiter                                                              *)

\* max_requests (Q) and time_window (W, in ticks) of the limiter under check
MaxRequests == 2
TimeWindow == 3
\* the +0.1 s buffer of sleep_time, one tick
Margin == 1
\* the clock stops advancing here; acquire() is called at most MaxCalls times
MaxTime == 9
MaxCalls == 5

Threads1 == {1}
\* two callers sharing one limiter
Threads2 == {1, 2}

\* while self.requests and current_time - self.requests[0] > self.time_window:
\*     self.requests.popleft()
RECURSIVE EvictEarly(_, _)
EvictEarly(reqs, cur) ==
    IF reqs # <<>> /\ cur - Head(reqs) >= TimeWindow
    THEN EvictEarly(Tail(reqs), cur)
    ELSE reqs

RECURSIVE Evict(_, _)
Evict(reqs, cur) ==
    IF reqs # <<>> /\ cur - Head(reqs) > TimeWindow
    THEN Evict(Tail(reqs), cur)
    ELSE reqs

SleepTimeNoMargin(cur, oldest) == TimeWindow - (cur - oldest)

\* sleep_time = self.time_window - (current_time - oldest_request) + 0.1
SleepTime(cur, oldest) == TimeWindow - (cur - oldest) + Margin

\* lines 70-87: read the clock, evict, test the count; either go on to the
\* append or start sleeping
AcqEnter(t) ==
    /\ tpc[t] = "idle"
    /\ Len(history) + Cardinality({u \in DOMAIN tpc : tpc[u] # "idle"}) < MaxCalls
    /\ LET reqs == Evict(requests, now) IN
        /\ requests' = reqs
        /\ tcur' = [tcur EXCEPT ![t] = now]
        /\ IF Len(reqs) >= MaxRequests
           THEN /\ tpc' = [tpc EXCEPT ![t] = "sleeping"]
                /\ twake' = [twake EXCEPT ![t] = now + SleepTime(now, Head(reqs))]
                /\ slept' = slept + 1
           ELSE /\ tpc' = [tpc EXCEPT ![t] = "append"]
                /\ UNCHANGED <<twake, slept>>
    /\ raced' = (raced \/ \E u \in DOMAIN tpc : u # t /\ tpc[u] # "idle")
    /\ UNCHANGED <<now, history>>

\* lines 87-92: time.sleep() returns no earlier than asked; read the clock
\* again and evict again
AcqWake(t) ==
    /\ tpc[t] = "sleeping"
    /\ now >= twake[t]
    /\ requests' = Evict(requests, now)
    /\ tcur' = [tcur EXCEPT ![t] = now]
    /\ tpc' = [tpc EXCEPT ![t] = "append"]
    /\ UNCHANGED <<now, history, twake, slept, raced>>

\* line 95: self.requests.append(current_time)
AcqAppend(t) ==
    /\ tpc[t] = "append"
    /\ requests' = Append(requests, tcur[t])
    /\ history' = Append(history, tcur[t])
    /\ tpc' = [tpc EXCEPT ![t] = "idle"]
    /\ UNCHANGED <<now, tcur, twake, slept, raced>>

\* real time passes
Tick ==
    /\ now < MaxTime
    /\ now' = now + 1
    /\ UNCHANGED <<requests, history, tpc, tcur, twake, slept, raced>>

LimInit(T) ==
    /\ now = 0
    /\ requests = <<>>
    /\ history = <<>>
    /\ tpc = [t \in T |-> "idle"]
    /\ tcur = [t \in T |-> 0]
    /\ twake = [t \in T |-> 0]
    /\ slept = 0
    /\ raced = FALSE

-----------------------------------------------------------------------------
(* LongbridgeFetcher._convert_stock_code                                    *)

\* strings are sequences of one-character strings
Chars == {" ", ".", "0", "6", "a", "A"}
\* the longest enumerated input
MaxStrLen == 3

Digits == {"0", "1", "2", "3", "4", "5", "6", "7", "8", "9"}

Str(n) == UNION {[1..k -> Chars] : k \in 0..n}

\* inputs with the prefixes and examples the rules name
NamedInputs ==
    { <<"6","0","0","5","1","9">>, <<"6","0","1","3","9","8">>,
      <<"6","0","3","2","8","8">>, <<"6","8","8","9","8","1">>,
      <<"0","0","0","0","0","1">>, <<"0","0","2","5","9","4">>,
      <<"3","0","0","7","5","0">>, <<"7","0","0">>, <<"9","9","8","8">>,
      <<"A","A","P","L">>, <<"a","a","p","l">>,
      <<" ","6","0","0","5","1","9"," ">>, <<"7","0","0",".","h","k">>,
      <<"6","0","0","5","1","9",".","S","H">>, <<"6","0","0","A">> }

SymInputs == Str(MaxStrLen) \cup NamedInputs

\* str.upper(), on the characters in use
UpperChar(c) ==
    CASE c = "a" -> "A" [] c = "p" -> "P" [] c = "l" -> "L"
      [] c = "h" -> "H" [] c = "k" -> "K" [] c = "s" -> "S"
      [] c = "z" -> "Z" [] OTHER -> c

Upper(s) == [i \in DOMAIN s |-> UpperChar(s[i])]

\* str.strip()
RECURSIVE LStrip(_)
LStrip(s) == IF s # <<>> /\ Head(s) = " " THEN LStrip(Tail(s)) ELSE s

RECURSIVE RStrip(_)
RStrip(s) ==
    IF s # <<>> /\ s[Len(s)] = " " THEN RStrip(SubSeq(s, 1, Len(s) - 1)) ELSE s

Strip(s) == RStrip(LStrip(s))

\* '.' in code
HasDot(s) == \E i \in DOMAIN s : s[i] = "."

\* str.isdigit(): non-empty and every character a digit
IsDigit(s) == s # <<>> /\ \A i \in DOMAIN s : s[i] \in Digits

\* str.startswith(tuple of prefixes)
StartsWith(s, p) == Len(s) >= Len(p) /\ SubSeq(s, 1, Len(p)) = p

StartsWithAny(s, ps) == \E p \in ps : StartsWith(s, p)

\* str.endswith
EndsWith(s, p) == Len(s) >= Len(p) /\ SubSeq(s, Len(s) - Len(p) + 1, Len(s)) = p

ShPrefixes == { <<"6","0","0">>, <<"6","0","1">>, <<"6","0","3">>, <<"6","8","8">> }
SzPrefixes == { <<"0","0","0">>, <<"0","0","2">>, <<"3","0","0">> }

SfxSH == <<".", "S", "H">>
SfxSZ == <<".", "S", "Z">>
SfxHK == <<".", "H", "K">>
SfxUS == <<".", "U", "S">>

\* lines 243-254: the market suffix of a stripped, upper-cased code without '.'
MarketSuffixSwapped(code) ==
    IF IsDigit(code)
    THEN IF StartsWithAny(code, ShPrefixes) THEN SfxSZ
         ELSE IF StartsWithAny(code, SzPrefixes) THEN SfxSH
         ELSE SfxHK
    ELSE SfxUS

MarketSuffix(code) ==
    IF IsDigit(code)
    THEN IF StartsWithAny(code, ShPrefixes) THEN SfxSH
         ELSE IF StartsWithAny(code, SzPrefixes) THEN SfxSZ
         ELSE SfxHK
    ELSE SfxUS

ConvertKeepCase(stock_code) ==
    LET code == Strip(stock_code) IN
    IF HasDot(code) THEN code ELSE code \o MarketSuffix(code)

ConvertNoDotCheck(stock_code) ==
    LET code == Upper(Strip(stock_code)) IN code \o MarketSuffix(code)

\* lines 231-254
ConvertStockCode(stock_code) ==
    LET code == Upper(Strip(stock_code)) IN
    IF HasDot(code) THEN code ELSE code \o MarketSuffix(code)

SymInit ==
    /\ symIn \in SymInputs
    /\ symOut = None
    /\ symOut2 = None
    /\ symStep = 0

\* symbol = self._convert_stock_code(stock_code)
ConvertOnce ==
    /\ symStep = 0
    /\ symOut' = ConvertStockCode(symIn)
    /\ symStep' = 1
    /\ UNCHANGED <<symIn, symOut2>>

\* the converted code is handed to _convert_stock_code again
ConvertAgain ==
    /\ symStep = 1
    /\ symOut2' = ConvertStockCode(symOut)
    /\ symStep' = 2
    /\ UNCHANGED <<symIn, symOut>>

-----------------------------------------------------------------------------
(* LongbridgeFetcher: construction                                          *)

CredNames == {"app_key", "app_secret", "access_token"}
SdkOutcomes == {"ok", "ImportError", "Exception"}

QuoteContext == "QuoteContext"

\* lines 155-179: the handle exists only with all three credentials and a
\* QuoteContext constructor that returns
InitApi(c, k) ==
    IF \E n \in CredNames : ~c[n] THEN None
    ELSE IF k = "ok" THEN QuoteContext
    ELSE None

DefaultPriority == 2
TopPriority == 0

AlwaysTopPriority(a) == TopPriority

\* lines 193-199
DeterminePriority(a) == IF a # None THEN TopPriority ELSE DefaultPriority

-----------------------------------------------------------------------------
(* LongbridgeFetcher._parse_date                                            *)

DigitVal(c) ==
    CASE c = "0" -> 0 [] c = "1" -> 1 [] c = "2" -> 2 [] c = "3" -> 3
      [] c = "4" -> 4 [] c = "5" -> 5 [] c = "6" -> 6 [] c = "7" -> 7
      [] c = "8" -> 8 [] c = "9" -> 9 [] OTHER -> 0

RECURSIVE NumVal(_)
NumVal(s) ==
    IF s = <<>> THEN 0
    ELSE 10 * NumVal(SubSeq(s, 1, Len(s) - 1)) + DigitVal(s[Len(s)])

\* str.split('-'), as strptime's '-' literals cut the text
RECURSIVE DashFields(_)
DashFields(s) ==
    IF ~(\E i \in DOMAIN s : s[i] = "-") THEN <<s>>
    ELSE LET k == CHOOSE i \in DOMAIN s :
                    s[i] = "-" /\ \A j \in 1..(i - 1) : s[j] # "-"
         IN <<SubSeq(s, 1, k - 1)>> \o DashFields(SubSeq(s, k + 1, Len(s)))

IsLeap(y) == (y % 4 = 0 /\ y % 100 # 0) \/ y % 400 = 0

DaysIn(y, m) ==
    IF m \in {4, 6, 9, 11} THEN 30
    ELSE IF m = 2 THEN (IF IsLeap(y) THEN 29 ELSE 28)
    ELSE 31

\* what datetime accepts once strptime has cut year, month and day
ValidYMD(ys, ms, ds) ==
    /\ Len(ys) = 4 /\ IsDigit(ys) /\ NumVal(ys) >= 1
    /\ Len(ms) \in {1, 2} /\ IsDigit(ms) /\ NumVal(ms) \in 1..12
    /\ Len(ds) \in {1, 2} /\ IsDigit(ds)
    /\ NumVal(ds) \in 1..DaysIn(NumVal(ys), NumVal(ms))

\* lines 270-280: TRUE when a date comes back, FALSE when ValueError is raised
ParseDateOk(date_str) ==
    LET d == Strip(date_str) IN
    IF \E i \in DOMAIN d : d[i] = "-"
    THEN LET f == DashFields(d) IN
            Len(f) = 3 /\ ValidYMD(f[1], f[2], f[3])
    ELSE IF Len(d) = 8 /\ IsDigit(d)
    THEN ValidYMD(SubSeq(d, 1, 4), SubSeq(d, 5, 6), SubSeq(d, 7, 8))
    ELSE FALSE

DateDashed == <<"2","0","2","5","-","1","2","-","0","1">>
DateCompact == <<"2","0","2","5","1","2","3","1">>
DateSlashed == <<"2","0","2","5","/","1","2","/","0","1">>
DateBadMonth == <<"2","0","2","5","1","3","0","1">>
DatePadded == <<" ","2","0","2","5","-","1","-","5">>

\* (start_date, end_date) pairs callers pass
DatePairs ==
    { <<DateDashed, DateCompact>>, <<DatePadded, DateDashed>>,
      <<DateSlashed, DateCompact>>, <<DateDashed, DateBadMonth>> }

-----------------------------------------------------------------------------
(* Failure classification                                                   *)

\* the text of an upstream exception, as a sequence of characters; the
\* Chinese characters are written by their pinyin
WQuota == <<"q","u","o","t","a">>
WQuotaUp == <<"Q","u","o","t","a">>
WLimit == <<"l","i","m","i","t">>
WXianLiu == <<"xian","liu">>
WPeiE == <<"pei","e">>
WPermission == <<"p","e","r","m","i","s","s","i","o","n">>
WQuanXian == <<"quan","xian">>
WWuQuanXian == <<"wu","quan","xian">>
WTimedOut == <<"t","i","m","e","d"," ","o","u","t">>
WRefused == <<"r","e","f","u","s","e","d">>

QuotaKeywords == {WXianLiu, WLimit, WQuota, WPeiE}
PermissionKeywords == {WQuanXian, WPermission, WWuQuanXian}

Messages ==
    { WQuota, WQuotaUp, WLimit, WXianLiu, WPeiE, WPermission, WQuanXian,
      WWuQuanXian, WTimedOut, WRefused, <<>>,
      WPermission \o <<" ">> \o WQuota,
      WTimedOut \o <<" ">> \o WLimit }

UpstreamTypes == {"TimeoutError", "ConnectionError", "OpenApiException"}

\* str.lower()
LowerChar(c) ==
    CASE c = "Q" -> "q" [] c = "A" -> "a" [] c = "L" -> "l" [] OTHER -> c

Lower(s) == [i \in DOMAIN s |-> LowerChar(s[i])]

\* keyword in error_msg
Contains(s, kw) ==
    \E i \in 1..(Len(s) - Len(kw) + 1) : SubSeq(s, i, i + Len(kw) - 1) = kw

ContainsAny(s, kws) == \E kw \in kws : Contains(s, kw)

ClassifyPermissionFirst(e) ==
    LET error_msg == Lower(e.msg) IN
    IF ContainsAny(error_msg, PermissionKeywords) THEN "DataFetchError"
    ELSE IF ContainsAny(error_msg, QuotaKeywords) THEN "RateLimitError"
    ELSE "DataFetchError"

\* lines 346-359 and 469-482: the exception the except block raises for
\* upstream error e
Classify(e) ==
    LET error_msg == Lower(e.msg) IN
    IF ContainsAny(error_msg, QuotaKeywords) THEN "RateLimitError"
    ELSE IF ContainsAny(error_msg, PermissionKeywords) THEN "DataFetchError"
    ELSE "DataFetchError"

-----------------------------------------------------------------------------
(* The retry decorator of _fetch_raw_data                                   *)

StopAfterAttempt == 3
WaitMultiplier == 1
WaitMin == 2
WaitMax == 30

RECURSIVE Pow2(_)
Pow2(n) == IF n = 0 THEN 1 ELSE 2 * Pow2(n - 1)

Min2(a, b) == IF a <= b THEN a ELSE b
Max2(a, b) == IF a >= b THEN a ELSE b

\* wait_exponential(multiplier=1, min=2, max=30) after attempt number n
WaitExponential(n) == Max2(WaitMin, Min2(WaitMultiplier * Pow2(n - 1), WaitMax))

RetryIfAlsoRateLimit(kind) ==
    kind \in {"ConnectionError", "TimeoutError", "RateLimitError"}

\* retry_if_exception_type((ConnectionError, TimeoutError))
RetryIf(kind) == kind \in {"ConnectionError", "TimeoutError"}

-----------------------------------------------------------------------------
(* LongbridgeFetcher._fetch_raw_data                                        *)

\* operations started per fetcher
MaxOps == 3

NoErr == [type |-> None, msg |-> <<>>]
NoArgs == [start |-> <<>>, end |-> <<>>]

\* group_name and group_id when no call is in progress
NoGroupArgs == [group_name |-> [some |-> FALSE, v |-> <<>>],
                group_id |-> [some |-> FALSE, v |-> 0]]
NoResp == [kind |-> "none", groups |-> <<>>]

FetchIdle ==
    /\ fop = "none" /\ fpc = "idle" /\ fargs = NoArgs /\ attempt = 0
    /\ waits = <<>> /\ upErr = NoErr /\ exc = None /\ fresult = None
    /\ opCalls = 0 /\ opReqs = <<>>
    /\ symbols = <<>> /\ lbsyms = <<>> /\ sent = <<>>
    /\ wargs = NoGroupArgs /\ wresp = NoResp /\ wret = <<>>

FetchInit ==
    /\ creds \in [CredNames -> BOOLEAN]
    /\ sdk \in SdkOutcomes
    /\ api = InitApi(creds, sdk)
    /\ priority = DeterminePriority(api)
    /\ FetchIdle
    /\ fops = 0

\* a caller invokes _fetch_raw_data(stock_code, start_date, end_date)
FetchRawCall ==
    /\ fpc = "idle"
    /\ fops < MaxOps
    /\ \E d \in DatePairs : fargs' = [start |-> d[1], end |-> d[2]]
    /\ fop' = "fetch_raw"
    /\ fpc' = "body"
    /\ attempt' = 1
    /\ waits' = <<>>
    /\ upErr' = NoErr
    /\ exc' = None
    /\ fresult' = None
    /\ opCalls' = 0
    /\ opReqs' = requests
    /\ fops' = fops + 1
    /\ UNCHANGED <<creds, sdk, api, priority>>

FetchEnterAcquireFirst ==
    /\ fop = "fetch_raw" /\ fpc = "body"
    /\ fpc' = "acquire"
    /\ UNCHANGED exc

\* lines 300-304: without a handle raise DataFetchError, else go on to
\* self._rate_limiter.acquire()
FetchEnter ==
    /\ fop = "fetch_raw" /\ fpc = "body"
    /\ IF api = None
       THEN fpc' = "raised" /\ exc' = "DataFetchError"
       ELSE fpc' = "acquire" /\ UNCHANGED exc

\* line 304, the three parts of acquire()
FetchAcquire ==
    /\ fop = "fetch_raw"
    /\ \/ fpc = "acquire" /\ AcqEnter(1) /\ fpc' = "acquiring"
       \/ fpc = "acquiring" /\ AcqWake(1) /\ fpc' = "acquiring"
       \/ fpc = "acquiring" /\ AcqAppend(1) /\ fpc' = "convert"

FetchParseLenient ==
    /\ fop = "fetch_raw" /\ fpc = "convert"
    /\ fpc' = "call"
    /\ UNCHANGED exc

\* lines 307-313: the symbol is converted, then both dates are parsed
FetchParse ==
    /\ fop = "fetch_raw" /\ fpc = "convert"
    /\ IF ParseDateOk(fargs.start) /\ ParseDateOk(fargs.end)
       THEN fpc' = "call" /\ UNCHANGED exc
       ELSE fpc' = "raised" /\ exc' = "ValueError"

\* lines 317-344: history_candlesticks_by_date returns candles
FetchUpstreamOk ==
    /\ fop = "fetch_raw" /\ fpc = "call"
    /\ opCalls' = opCalls + 1
    /\ fpc' = "returned"
    /\ fresult' = "DataFrame"
    /\ UNCHANGED <<upErr, exc>>

\* lines 317-359: history_candlesticks_by_date raises e; the except block
\* raises what Classify gives
FetchUpstreamFail ==
    /\ fop = "fetch_raw" /\ fpc = "call"
    /\ opCalls' = opCalls + 1
    /\ \E ty \in UpstreamTypes, m \in Messages :
        /\ upErr' = [type |-> ty, msg |-> m]
        /\ exc' = Classify(upErr')
    /\ fpc' = "raised"
    /\ UNCHANGED fresult

\* lines 282-287: tenacity looks at the exception that left the body
FetchTenacity ==
    /\ fop = "fetch_raw" /\ fpc = "raised"
    /\ IF ~RetryIf(exc)
       THEN /\ fpc' = "failed" /\ fresult' = exc
            /\ UNCHANGED <<attempt, waits, exc>>
       ELSE IF attempt >= StopAfterAttempt
       THEN /\ fpc' = "failed" /\ fresult' = "RetryError"
            /\ UNCHANGED <<attempt, waits, exc>>
       ELSE /\ fpc' = "body"
            /\ waits' = Append(waits, WaitExponential(attempt))
            /\ attempt' = attempt + 1
            /\ exc' = None
            /\ UNCHANGED fresult

\* the caller has the result or the exception; the fetcher is idle again
FetchDone ==
    /\ fpc \in {"returned", "failed"}
    /\ fop' = "none" /\ fpc' = "idle" /\ fargs' = NoArgs /\ attempt' = 0
    /\ waits' = <<>> /\ upErr' = NoErr /\ exc' = None /\ fresult' = None
    /\ opCalls' = 0 /\ opReqs' = <<>>
    /\ symbols' = <<>> /\ lbsyms' = <<>> /\ sent' = <<>>
    /\ wargs' = NoGroupArgs /\ wresp' = NoResp /\ wret' = <<>>

fetchConst == <<creds, sdk, api, priority>>

\* real time passes, seen where the limiter reads the clock: between two
\* operations and while acquire() is under way
Clock ==
    /\ fpc \in {"idle", "acquiring"}
    /\ Tick

-----------------------------------------------------------------------------
(* LongbridgeFetcher.get_realtime_quote_batch, get_realtime_quote_with_indexes *)

\* line 541: batch_size
BatchSize == 500

\* base repeated cyclically up to n elements
Cycle(base, n) == [i \in 1..n |-> base[((i - 1) % Len(base)) + 1]]

NormalizedCodes == << <<"6",".","S","H">>, <<"0",".","S","Z">> >>

\* symbol lists callers pass: empty, without a mainland code, mixed, and
\* lists whose mainland codes fill one batch exactly and more than one
QuoteInputs ==
    { <<>>,
      << <<"7","0","0">>, <<"A","A","P","L">>, <<"7","0","0",".","H","K">> >>,
      << <<"6","0","0","5","1","9">>, <<"7","0","0">>,
         <<" ","0","0","0","0","0","1">>, <<"6","0","1",".","s","h">> >>,
      << <<"7">> >> \o Cycle(NormalizedCodes, 500),
      << <<"7">> >> \o Cycle(NormalizedCodes, 502) }

\* texts of the errors quote() and calc_indexes() raise
QuoteMessages == {WQuota, WPermission, WTimedOut}

KeepAll(lb_symbol) == TRUE

\* line 527: lb_symbol.endswith('.SH') or lb_symbol.endswith('.SZ')
IsAShare(lb_symbol) == EndsWith(lb_symbol, SfxSH) \/ EndsWith(lb_symbol, SfxSZ)

\* lines 522-528: convert every symbol, keep the mainland ones
LongbridgeSymbols(syms) ==
    SelectSeq([i \in DOMAIN syms |-> ConvertStockCode(syms[i])], IsAShare)

\* lines 655-658: convert every symbol
ConvertedSymbols(syms) == [i \in DOMAIN syms |-> ConvertStockCode(syms[i])]

\* line 545: longbridge_symbols[i:i + batch_size]
BatchAt(lst, i) == SubSeq(lst, i + 1, Min2(i + BatchSize, Len(lst)))

\* a caller invokes get_realtime_quote_batch(symbols)
QuoteBatchCall ==
    /\ fpc = "idle"
    /\ fops < MaxOps
    /\ symbols' \in QuoteInputs
    /\ fop' = "quote_batch"
    /\ fpc' = "body"
    /\ opReqs' = requests
    /\ fops' = fops + 1
    /\ UNCHANGED <<fetchConst, fargs, attempt, waits, upErr, exc, fresult,
                   opCalls, lbsyms, sent, wlVars>>

QuoteBatchEnterNoChecks ==
    /\ fop = "quote_batch" /\ fpc = "body"
    /\ lbsyms' = LongbridgeSymbols(symbols)
    /\ fpc' = "acquire"
    /\ UNCHANGED <<fetchConst, fop, fargs, attempt, waits, upErr, exc, fresult,
                   opCalls, opReqs, fops, symbols, sent, wlVars>>

\* lines 517-534: None without a handle; filter; None when nothing is left
QuoteBatchEnter ==
    /\ fop = "quote_batch" /\ fpc = "body"
    /\ IF api = None
       THEN fpc' = "returned" /\ UNCHANGED lbsyms
       ELSE /\ lbsyms' = LongbridgeSymbols(symbols)
            /\ fpc' = IF lbsyms' = <<>> THEN "returned" ELSE "acquire"
    /\ UNCHANGED <<fetchConst, fop, fargs, attempt, waits, upErr, exc, fresult,
                   opCalls, opReqs, fops, symbols, sent, wlVars>>

\* lines 538 and 664: self._rate_limiter.acquire(), its three parts
RealtimeAcquire ==
    /\ fop \in {"quote_batch", "quote_indexes"}
    /\ \/ fpc = "acquire" /\ AcqEnter(1) /\ fpc' = "acquiring"
       \/ fpc = "acquiring" /\ AcqWake(1) /\ fpc' = "acquiring"
       \/ fpc = "acquiring" /\ AcqAppend(1) /\ fpc' = "call"
    /\ UNCHANGED <<fetchConst, fop, fargs, attempt, waits, upErr, exc, fresult,
                   opCalls, opReqs, fops, rtVars, wlVars>>

\* lines 544-600: quote(batch) returns and its quotes are parsed; after the
\* last batch all_quotes is returned
QuoteBatchQuoteOk ==
    /\ fop = "quote_batch" /\ fpc = "call"
    /\ sent' = Append(sent, BatchAt(lbsyms, Len(sent) * BatchSize))
    /\ opCalls' = opCalls + 1
    /\ IF Len(sent') * BatchSize < Len(lbsyms)
       THEN fpc' = "call" /\ UNCHANGED fresult
       ELSE fpc' = "returned" /\ fresult' = "dict"
    /\ UNCHANGED <<fetchConst, fop, fargs, attempt, waits, upErr, exc, opReqs,
                   fops, symbols, lbsyms, wlVars>>

\* lines 550 and 602-604: quote(batch) raises e; the error is logged and
\* None is returned
QuoteBatchQuoteFail ==
    /\ fop = "quote_batch" /\ fpc = "call"
    /\ sent' = Append(sent, BatchAt(lbsyms, Len(sent) * BatchSize))
    /\ opCalls' = opCalls + 1
    /\ \E msg \in QuoteMessages :
            upErr' = [type |-> "OpenApiException", msg |-> msg]
    /\ fpc' = "returned"
    /\ UNCHANGED <<fetchConst, fop, fargs, attempt, waits, exc, fresult,
                   opReqs, fops, symbols, lbsyms, wlVars>>

\* symbol lists handed to get_realtime_quote_with_indexes
IndexInputs == {q \in QuoteInputs : Len(q) <= 4}

\* a caller invokes get_realtime_quote_with_indexes(symbols)
QuoteIndexesCall ==
    /\ fpc = "idle"
    /\ fops < MaxOps
    /\ symbols' \in IndexInputs
    /\ fop' = "quote_indexes"
    /\ fpc' = "body"
    /\ opReqs' = requests
    /\ fops' = fops + 1
    /\ UNCHANGED <<fetchConst, fargs, attempt, waits, upErr, exc, fresult,
                   opCalls, lbsyms, sent, wlVars>>

\* lines 650-660: None without a handle; else convert every symbol
QuoteIndexesEnter ==
    /\ fop = "quote_indexes" /\ fpc = "body"
    /\ IF api = None
       THEN fpc' = "returned" /\ UNCHANGED lbsyms
       ELSE lbsyms' = ConvertedSymbols(symbols) /\ fpc' = "acquire"
    /\ UNCHANGED <<fetchConst, fop, fargs, attempt, waits, upErr, exc, fresult,
                   opCalls, opReqs, fops, symbols, sent, wlVars>>

\* lines 693-723: calc_indexes(longbridge_symbols, calc_indexes) returns
QuoteIndexesOk ==
    /\ fop = "quote_indexes" /\ fpc = "call"
    /\ sent' = Append(sent, lbsyms)
    /\ opCalls' = opCalls + 1
    /\ fpc' = "returned" /\ fresult' = "dict"
    /\ UNCHANGED <<fetchConst, fop, fargs, attempt, waits, upErr, exc, opReqs,
                   fops, symbols, lbsyms, wlVars>>

\* lines 693 and 725-727: calc_indexes raises e; the error is logged and
\* None is returned
QuoteIndexesFail ==
    /\ fop = "quote_indexes" /\ fpc = "call"
    /\ sent' = Append(sent, lbsyms)
    /\ opCalls' = opCalls + 1
    /\ \E msg \in QuoteMessages :
            upErr' = [type |-> "OpenApiException", msg |-> msg]
    /\ fpc' = "returned"
    /\ UNCHANGED <<fetchConst, fop, fargs, attempt, waits, exc, fresult,
                   opReqs, fops, symbols, lbsyms, wlVars>>

-----------------------------------------------------------------------------
(* LongbridgeFetcher.get_watchlist_from_group                               *)

NameAll == <<"a","l","l">>
NameHK == <<"h","k">>
NameOther == <<"z","z">>

\* watchlist groups of the account: id, name and member symbols
GroupAll == [id |-> 1, name |-> NameAll,
             securities |-> << <<"7","0","0",".","H","K">>,
                               <<"6","0","0","5","1","9",".","S","H">> >>]
GroupHK == [id |-> 2, name |-> NameHK, securities |-> <<>>]
GroupAllAgain == [id |-> 3, name |-> NameAll,
                  securities |-> << <<"A","A","P","L",".","U","S">> >>]
NoGroup == [id |-> 0, name |-> <<>>, securities |-> <<>>]

\* what watchlist() returns: a list of groups
WatchResponses ==
    { <<>>, <<GroupAll>>, <<GroupHK, GroupAll>>, <<GroupAll, GroupHK, GroupAllAgain>> }

\* the arguments callers pass
GroupNames ==
    { [some |-> FALSE, v |-> <<>>], [some |-> TRUE, v |-> <<>>],
      [some |-> TRUE, v |-> NameAll], [some |-> TRUE, v |-> NameHK],
      [some |-> TRUE, v |-> NameOther] }
GroupIds ==
    { [some |-> FALSE, v |-> 0], [some |-> TRUE, v |-> 2],
      [some |-> TRUE, v |-> 9] }

WatchMessages == {WQuota, WPermission, WTimedOut, WPermission \o <<" ">> \o WQuota}

\* str(e) of the AttributeError of line 452:
\* 'list' object has no attribute 'groups'
WNoGroupsAttr ==
    <<"'","l","i","s","t","'"," ","o","b","j","e","c","t"," ","h","a","s"," ",
      "n","o"," ","a","t","t","r","i","b","u","t","e"," ","'","g","r","o","u",
      "p","s","'">>

\* for group in resp: if group.<field> == value: target_group = group; break
FirstGroup(resp, field, value) ==
    IF \E i \in DOMAIN resp : resp[i][field] = value
    THEN LET k == CHOOSE i \in DOMAIN resp :
                    /\ resp[i][field] = value
                    /\ \A j \in 1..(i - 1) : resp[j][field] # value
         IN [kind |-> "group", g |-> resp[k]]
    ELSE [kind |-> "none", g |-> NoGroup]

\* lines 427-453: the target group of a non-empty response; resp is a list,
\* and resp.groups raises AttributeError
TargetGroup(resp, a) ==
    IF a.group_name.some /\ a.group_name.v # <<>>
    THEN FirstGroup(resp, "name", a.group_name.v)
    ELSE IF a.group_id.some
    THEN FirstGroup(resp, "id", a.group_id.v)
    ELSE [kind |-> "AttributeError", g |-> NoGroup]

\* lines 422-482, once watchlist() has returned resp: the list returned, or
\* the exception raised
WatchOutcome(resp, a) ==
    IF resp = <<>> THEN [exc |-> None, ret |-> <<>>]
    ELSE LET t == TargetGroup(resp, a) IN
         IF t.kind = "AttributeError"
         THEN [exc |-> Classify([type |-> "AttributeError", msg |-> WNoGroupsAttr]),
               ret |-> <<>>]
         ELSE IF t.kind = "group" /\ t.g.securities # <<>>
         THEN [exc |-> None, ret |-> t.g.securities]
         ELSE [exc |-> None, ret |-> <<>>]

\* a caller invokes get_watchlist_from_group(group_name, group_id)
WatchCall ==
    /\ fpc = "idle"
    /\ fops < MaxOps
    /\ \E n \in GroupNames, i \in GroupIds :
            wargs' = [group_name |-> n, group_id |-> i]
    /\ fop' = "watchlist"
    /\ fpc' = "body"
    /\ opReqs' = requests
    /\ fops' = fops + 1
    /\ UNCHANGED <<fetchConst, fargs, attempt, waits, upErr, exc, fresult,
                   opCalls, rtVars, wresp, wret>>

\* lines 409-413: without a handle raise DataFetchError, else go on to
\* self._rate_limiter.acquire()
WatchEnter ==
    /\ fop = "watchlist" /\ fpc = "body"
    /\ IF api = None
       THEN fpc' = "failed" /\ exc' = "DataFetchError" /\ fresult' = "DataFetchError"
       ELSE fpc' = "acquire" /\ UNCHANGED <<exc, fresult>>
    /\ UNCHANGED <<fetchConst, fop, fargs, attempt, waits, upErr, opCalls,
                   opReqs, fops, rtVars, wlVars>>

\* line 413, the three parts of acquire()
WatchAcquire ==
    /\ fop = "watchlist"
    /\ \/ fpc = "acquire" /\ AcqEnter(1) /\ fpc' = "acquiring"
       \/ fpc = "acquiring" /\ AcqWake(1) /\ fpc' = "acquiring"
       \/ fpc = "acquiring" /\ AcqAppend(1) /\ fpc' = "call"
    /\ UNCHANGED <<fetchConst, fop, fargs, attempt, waits, upErr, exc, fresult,
                   opCalls, opReqs, fops, rtVars, wlVars>>

\* lines 420-467 and 469-482: watchlist() returns resp; the group is
\* resolved and its symbols are returned, or the except block raises
WatchUpstreamOk ==
    /\ fop = "watchlist" /\ fpc = "call"
    /\ opCalls' = opCalls + 1
    /\ \E resp \in WatchResponses :
        /\ wresp' = [kind |-> "list", groups |-> resp]
        /\ LET o == WatchOutcome(resp, wargs) IN
            IF o.exc = None
            THEN /\ fpc' = "returned" /\ fresult' = "list" /\ wret' = o.ret
                 /\ UNCHANGED exc
            ELSE /\ fpc' = "failed" /\ fresult' = o.exc /\ exc' = o.exc
                 /\ UNCHANGED wret
    /\ UNCHANGED <<fetchConst, fop, fargs, attempt, waits, upErr, opReqs, fops,
                   rtVars, wargs>>

\* lines 420 and 469-482: watchlist() raises e; the except block raises what
\* Classify gives
WatchUpstreamFail ==
    /\ fop = "watchlist" /\ fpc = "call"
    /\ opCalls' = opCalls + 1
    /\ \E msg \in WatchMessages :
        /\ upErr' = [type |-> "OpenApiException", msg |-> msg]
        /\ exc' = Classify(upErr')
        /\ fresult' = Classify(upErr')
    /\ fpc' = "failed"
    /\ UNCHANGED <<fetchConst, fop, fargs, attempt, waits, opReqs, fops,
                   rtVars, wlVars>>

-----------------------------------------------------------------------------
(* LongbridgeFetcher._normalize_data                                        *)

\* rows per DataFrame, the latest trading day, the highest close
MaxCandles == 3
MaxCandleDate == 3
MaxClose == 2

\* lines 332-340: one row per candle; of the columns only date and close
\* enter the computation
CandleRows == [date : 1..MaxCandleDate, close : 0..MaxClose]

Frames == UNION {[1..k -> CandleRows] : k \in 0..MaxCandles}

\* a float64 cell: NaN, an infinity, or a number counted in hundredths
NaN == [kind |-> "nan", v |-> 0]
Inf(sign) == [kind |-> "inf", v |-> sign]
Num(h) == [kind |-> "num", v |-> h]

\* Series.round(2) of n / d * 100 for d > 0, in hundredths: to the nearest,
\* ties to even
RoundHalfEven(n, d) ==
    LET q == n \div d
        r == n % d
    IN  IF 2 * r < d THEN q
        ELSE IF 2 * r > d THEN q + 1
        ELSE IF q % 2 = 0 THEN q ELSE q + 1

\* line 378: ((close - prev_close) / prev_close * 100).round(2) on floats;
\* a division by 0.0 gives NaN (0/0) or an infinity, and does not raise
PctChg(close, prev_close) ==
    IF prev_close = 0
    THEN IF close = 0 THEN NaN
         ELSE IF close > 0 THEN Inf(1) ELSE Inf(-1)
    ELSE Num(RoundHalfEven((close - prev_close) * 10000, prev_close))

IndexOrders(n) ==
    {f \in [1..n -> 1..n] : \A i, j \in 1..n : i # j => f[i] # f[j]}

KeepOrder(rows) == {rows}

\* line 376: sort_values('date', ascending=True).reset_index(drop=True);
\* the default quicksort may leave rows of one date in any order
SortValues(rows) ==
    { [i \in DOMAIN rows |-> rows[f[i]]] : f \in
        { g \in IndexOrders(Len(rows)) :
            \A i \in 1..(Len(rows) - 1) : rows[g[i]].date <= rows[g[i + 1]].date } }

\* lines 377-378: prev_close = close.shift(1), NaN in the first row
WithPctChg(sorted) ==
    [i \in DOMAIN sorted |->
        [date |-> sorted[i].date, close |-> sorted[i].close,
         pct_chg |-> IF i = 1 THEN NaN
                     ELSE PctChg(sorted[i].close, sorted[i - 1].close)]]

NoNorm == [status |-> "none", rows |-> <<>>]

NormIdle == candles = <<>> /\ normOut = NoNorm

NormInit == candles \in Frames /\ normOut = NoNorm

\* lines 373-391; the DataFrame of an empty candle list has no 'date' column
\* and sort_values raises KeyError
NormalizeData ==
    /\ normOut.status = "none"
    /\ IF candles = <<>>
       THEN normOut' = [status |-> "KeyError", rows |-> <<>>]
       ELSE \E sorted \in SortValues(candles) :
                normOut' = [status |-> "ok", rows |-> WithPctChg(sorted)]
    /\ UNCHANGED candles

-----------------------------------------------------------------------------
(* ChromeFetcher: the daily cache                                           *)

\* the rows the site can show: a sector name and the data that goes with it
SectorRows == { [name |-> "A", val |-> 1], [name |-> "B", val |-> 2] }
\* rows one extraction returns at most; days the clock runs through
MaxPageRows == 2
MaxDay == 2

\* what page.evaluate(extract_js) can return
PageData == UNION {[1..k -> SectorRows] : k \in 0..MaxPageRows}

\* the file is absent, unreadable as JSON, or a JSON object
NoFile == [kind |-> "absent", date |-> 0, data |-> <<>>]
Corrupt == [kind |-> "corrupt", date |-> 0, data |-> <<>>]
JsonFile(day, text) == [kind |-> "json", date |-> day, data |-> text]

\* an Optional[List]: None, or a list
Nothing == [some |-> FALSE, v |-> <<>>]
Some(x) == [some |-> TRUE, v |-> x]

\* json.dump of the rows: each dict becomes the text of its members
JsonDump(rows) == [i \in DOMAIN rows |-> <<"name", rows[i].name, "val", rows[i].val>>]

\* json.load of that text
JsonLoad(text) == [i \in DOMAIN text |-> [name |-> text[i][2], val |-> text[i][4]]]

GetCachedDataAnyDate(file, day) ==
    IF file.kind = "absent" THEN Nothing
    ELSE IF file.kind = "corrupt" THEN Nothing
    ELSE Some(JsonLoad(file.data))

\* lines 191-211: the rows of a readable file dated today, else None
GetCachedData(file, day) ==
    IF file.kind = "absent" THEN Nothing
    ELSE IF file.kind = "corrupt" THEN Nothing
    ELSE IF file.date = day THEN Some(JsonLoad(file.data))
    ELSE Nothing

SaveOutcomes == {"ok", "fail_before_open", "fail_in_write"}

SaveStaleDate(file, data, day, outcome) ==
    CASE outcome = "ok" -> JsonFile(day - 1, JsonDump(data))
      [] outcome = "fail_before_open" -> file
      [] outcome = "fail_in_write" -> Corrupt

\* lines 215-231: the file after _save_cached_data(data); an error is
\* logged, and leaves the old file or, once it is opened for writing, a
\* truncated one
SaveCachedData(file, data, day, outcome) ==
    CASE outcome = "ok" -> JsonFile(day, JsonDump(data))
      [] outcome = "fail_before_open" -> file
      [] outcome = "fail_in_write" -> Corrupt

NoWrite == [ok |-> FALSE, rows |-> <<>>, day |-> 0]

\* the write the file holds after a save
WroteAfter(w, data, day, outcome) ==
    CASE outcome = "ok" -> [ok |-> TRUE, rows |-> data, day |-> day]
      [] outcome = "fail_before_open" -> w
      [] outcome = "fail_in_write" -> NoWrite

NoOp == [op |-> "none", outcome |-> None, result |-> Nothing,
         before |-> NoFile, day |-> 0]

CacheInit ==
    /\ today = 1
    /\ cacheFile = NoFile
    /\ cacheOp = NoOp
    /\ wrote = NoWrite

\* _save_cached_data(data), called directly
CacheSave ==
    /\ \E data \in PageData, o \in SaveOutcomes :
        /\ cacheFile' = SaveCachedData(cacheFile, data, today, o)
        /\ wrote' = WroteAfter(wrote, data, today, o)
        /\ cacheOp' = [op |-> "save", outcome |-> o, result |-> Nothing,
                       before |-> cacheFile, day |-> today]
    /\ UNCHANGED today

\* _get_cached_data(), called directly
CacheRead ==
    /\ cacheOp' = [op |-> "read", outcome |-> None,
                   result |-> GetCachedData(cacheFile, today),
                   before |-> cacheFile, day |-> today]
    /\ UNCHANGED <<today, cacheFile, wrote>>

\* midnight passes
DayChange ==
    /\ today < MaxDay
    /\ today' = today + 1
    /\ UNCHANGED <<cacheFile, cacheOp, wrote>>

-----------------------------------------------------------------------------
(* ChromeFetcher.get_industry_sectors                                       *)

Kinds == {"browser", "context", "page"}

NoHandles == [k \in Kinds |-> None]
NoRes == [k \in Kinds |-> "none"]

\* a list used as a condition
Truthy(x) == x # <<>>

\* an Optional[List] used as a condition
TruthyOpt(x) == x.some /\ x.v # <<>>

NamesOfNone(rows) == {}

\* {s['name'] for s in all_sectors}
NamesOf(rows) == {rows[i].name : i \in DOMAIN rows}

NewDataKeepAll(data, existing) == data

\* [s for s in data if s['name'] not in existing]
RECURSIVE NewData(_, _)
NewData(data, existing) ==
    IF data = <<>> THEN <<>>
    ELSE IF Head(data).name \notin existing
         THEN <<Head(data)>> \o NewData(Tail(data), existing)
         ELSE NewData(Tail(data), existing)

SaveGuardAlways(rows) == TRUE

\* line 332: if all_sectors
SaveGuard(rows) == Truthy(rows)

ScrapeIdle ==
    /\ cpc = "idle" /\ all_sectors = <<>> /\ page_num = 0 /\ cresult = Nothing
    /\ callHit = FALSE /\ callOps = {} /\ lastData = Nothing
    /\ extracts = 0 /\ res = NoRes

ScrapeInit ==
    /\ pwInstalled \in BOOLEAN
    /\ pwImported = FALSE
    /\ handles = NoHandles
    /\ ScrapeIdle

\* lines 240-246: read the cache; return it when it is truthy, else attach
SectorsCall ==
    /\ cpc = "idle"
    /\ callHit' = (cacheFile.kind = "json" /\ cacheFile.date = today)
    /\ LET cached_data == GetCachedData(cacheFile, today) IN
        IF TruthyOpt(cached_data)
        THEN cpc' = "returned" /\ cresult' = cached_data
        ELSE cpc' = "connect" /\ cresult' = Nothing
    /\ UNCHANGED <<cacheVars, pwInstalled, pwImported, handles, res,
                   all_sectors, page_num, callOps, lastData, extracts>>

ConnectOutcomes == {"cdp_fail", "context_fail", "page_fail", "ok"}

\* the handles connect() has assigned when it ends with outcome o
HandlesAfter(h, o) ==
    [k \in Kinds |->
        IF \/ k = "browser" /\ o \in {"context_fail", "page_fail", "ok"}
           \/ k = "context" /\ o \in {"page_fail", "ok"}
           \/ k = "page" /\ o = "ok"
        THEN "set" ELSE h[k]]

\* the resources connect() has opened when it ends with outcome o
ResAfter(o) ==
    [k \in Kinds |->
        IF \/ k = "browser" /\ o \in {"context_fail", "page_fail", "ok"}
           \/ k = "context" /\ o \in {"page_fail", "ok"}
           \/ k = "page" /\ o = "ok"
        THEN "open" ELSE "none"]

ConnectReturnsTrue(o) == TRUE

\* lines 95-104: connect() returns True after new_page(), False from the
\* except block
ConnectReturns(o) == o = "ok"

\* lines 245-246 with connect(), lines 75-104: without playwright, or when
\* a step of the attachment raises, connect() returns False and the call
\* returns []
Connect ==
    /\ cpc = "connect"
    /\ IF ~pwImported /\ ~pwInstalled
       THEN /\ cpc' = "returned" /\ cresult' = Some(<<>>)
            /\ UNCHANGED <<pwImported, handles, res, callOps>>
       ELSE /\ pwImported' = TRUE
            /\ callOps' = callOps \cup {"attach"}
            /\ \E o \in ConnectOutcomes :
                /\ handles' = HandlesAfter(handles, o)
                /\ res' = ResAfter(o)
                /\ IF ConnectReturns(o)
                   THEN cpc' = "goto" /\ UNCHANGED cresult
                   ELSE cpc' = "returned" /\ cresult' = Some(<<>>)
    /\ UNCHANGED <<cacheVars, pwInstalled, all_sectors, page_num, callHit,
                   lastData, extracts>>

\* lines 248-256: page.goto returns, or raises into the except block of
\* lines 335-336, which logs the error
Goto ==
    /\ cpc = "goto"
    /\ page_num' = 1
    /\ \E ok \in BOOLEAN :
        IF ok THEN cpc' = "extract" /\ callOps' = callOps \cup {"goto"}
        ELSE cpc' = "close" /\ callOps' = callOps \cup {"goto", "except"}
    /\ UNCHANGED <<cacheVars, pwInstalled, pwImported, handles, res,
                   all_sectors, cresult, callHit, lastData,
                   extracts>>

\* lines 294-307: one extraction and the deduplication of its rows
Extract ==
    /\ cpc = "extract"
    /\ extracts' = extracts + 1
    /\ \/ \E data \in PageData :
            /\ callOps' = callOps \cup {"extract"}
            /\ lastData' = Some(data)
            /\ IF Truthy(data)
               THEN LET existing == NamesOf(all_sectors)
                        new_data == NewData(data, existing)
                    IN IF Truthy(new_data)
                       THEN /\ all_sectors' = all_sectors \o new_data
                            /\ cpc' = "has_next"
                       ELSE /\ cpc' = "save"
                            /\ UNCHANGED all_sectors
               ELSE /\ cpc' = "save"
                    /\ UNCHANGED all_sectors
       \/ /\ cpc' = "close"
          /\ callOps' = callOps \cup {"extract", "except"}
          /\ lastData' = Nothing
          /\ UNCHANGED all_sectors
    /\ UNCHANGED <<cacheVars, pwInstalled, pwImported, handles, res,
                   page_num, cresult, callHit>>

\* lines 310-317: is there a next-page control
HasNext ==
    /\ cpc = "has_next"
    /\ \E o \in {"present", "absent", "raise"} :
        /\ cpc' = CASE o = "present" -> "click"
                   [] o = "absent" -> "save"
                   [] o = "raise" -> "close"
        /\ callOps' = callOps \cup (IF o = "raise" THEN {"has_next", "except"}
                                    ELSE {"has_next"})
    /\ lastData' = Nothing
    /\ UNCHANGED <<cacheVars, pwInstalled, pwImported, handles, res,
                   all_sectors, page_num, cresult, callHit, extracts>>

\* lines 320-327: click the control and go round the loop
Click ==
    /\ cpc = "click"
    /\ \E ok \in BOOLEAN :
        IF ok THEN /\ cpc' = "extract" /\ page_num' = page_num + 1
                   /\ callOps' = callOps \cup {"click"}
        ELSE /\ cpc' = "close" /\ UNCHANGED page_num
             /\ callOps' = callOps \cup {"click", "except"}
    /\ UNCHANGED <<cacheVars, pwInstalled, pwImported, handles, res,
                   all_sectors, cresult, callHit, lastData,
                   extracts>>

\* lines 329-333: after the loop, save the rows when there are any
SaveAfterLoop ==
    /\ cpc = "save"
    /\ cpc' = "close"
    /\ lastData' = Nothing
    /\ IF SaveGuard(all_sectors)
       THEN /\ callOps' = callOps \cup {"save"}
            /\ \E o \in SaveOutcomes :
                /\ cacheFile' = SaveCachedData(cacheFile, all_sectors, today, o)
                /\ wrote' = WroteAfter(wrote, all_sectors, today, o)
       ELSE UNCHANGED <<callOps, cacheFile, wrote>>
    /\ UNCHANGED <<today, cacheOp, pwInstalled, pwImported, handles, res,
                   all_sectors, page_num, cresult, callHit, extracts>>

CloseOutcomes == {"ok", "page_raises", "context_raises", "browser_raises"}

\* the kinds whose close() returned when close() ends with outcome o
ClosedBy(o) ==
    CASE o = "ok" -> {"page", "context", "browser"}
      [] o = "browser_raises" -> {"page", "context"}
      [] o = "context_raises" -> {"page"}
      [] o = "page_raises" -> {}

CloseDropsRows ==
    /\ cpc = "close"
    /\ callOps' = callOps \cup {"close"}
    /\ \E o \in CloseOutcomes :
        res' = [k \in Kinds |->
                    IF k \in ClosedBy(o) /\ handles[k] # None
                    THEN "closed" ELSE res[k]]
    /\ cpc' = "returned"
    /\ cresult' = Some(IF "except" \in callOps THEN <<>> ELSE all_sectors)
    /\ UNCHANGED <<cacheVars, pwInstalled, pwImported, handles, all_sectors,
                   page_num, callHit, lastData, extracts>>

\* lines 337-358 and 340: the finally block, where close() stops at the first
\* close that raises; then return all_sectors
Close ==
    /\ cpc = "close"
    /\ callOps' = callOps \cup {"close"}
    /\ \E o \in CloseOutcomes :
        res' = [k \in Kinds |->
                    IF k \in ClosedBy(o) /\ handles[k] # None
                    THEN "closed" ELSE res[k]]
    /\ cpc' = "returned"
    /\ cresult' = Some(all_sectors)
    /\ UNCHANGED <<cacheVars, pwInstalled, pwImported, handles, all_sectors,
                   page_num, callHit, lastData, extracts>>

\* the caller has the list; the fetcher is idle again
SectorsDone ==
    /\ cpc = "returned"
    /\ cpc' = "idle" /\ all_sectors' = <<>> /\ page_num' = 0
    /\ cresult' = Nothing /\ callHit' = FALSE /\ callOps' = {}
    /\ lastData' = Nothing /\ extracts' = 0
    /\ res' = NoRes
    /\ UNCHANGED <<cacheVars, pwInstalled, pwImported, handles>>

\* a fetcher nobody calls
ChromeOff ==
    /\ CacheInit
    /\ pwInstalled = TRUE /\ pwImported = FALSE /\ handles = NoHandles
    /\ ScrapeIdle

-----------------------------------------------------------------------------
(* Specifications                                                           *)

SymIdle == symIn = <<>> /\ symOut = None /\ symOut2 = None /\ symStep = 0

\* a fetcher built without credentials and left alone
FetchOff ==
    /\ creds = [n \in CredNames |-> FALSE]
    /\ sdk = "ok"
    /\ api = None
    /\ priority = DefaultPriority
    /\ FetchIdle
    /\ fops = 0

LimIdle == LimInit(Threads1)

InitLimiter == LimInit(Threads1) /\ SymIdle /\ FetchOff /\ ChromeOff /\ NormIdle

InitSymbol == SymInit /\ LimIdle /\ FetchOff /\ ChromeOff /\ NormIdle

\* one thread calling acquire() again and again
NextLimiter ==
    \/ \E t \in Threads1 : AcqEnter(t) /\ UNCHANGED <<symVars, fetchVars, chromeVars, normVars>>
    \/ \E t \in Threads1 : AcqWake(t) /\ UNCHANGED <<symVars, fetchVars, chromeVars, normVars>>
    \/ \E t \in Threads1 : AcqAppend(t) /\ UNCHANGED <<symVars, fetchVars, chromeVars, normVars>>
    \/ Tick /\ UNCHANGED <<symVars, fetchVars, chromeVars, normVars>>

SpecLimiter == InitLimiter /\ [][NextLimiter]_vars

InitLimiter2 == LimInit(Threads2) /\ SymIdle /\ FetchOff /\ ChromeOff /\ NormIdle

\* two threads calling acquire() on one limiter, which has no lock
NextLimiter2 ==
    \/ \E t \in Threads2 : AcqEnter(t) /\ UNCHANGED <<symVars, fetchVars, chromeVars, normVars>>
    \/ \E t \in Threads2 : AcqWake(t) /\ UNCHANGED <<symVars, fetchVars, chromeVars, normVars>>
    \/ \E t \in Threads2 : AcqAppend(t) /\ UNCHANGED <<symVars, fetchVars, chromeVars, normVars>>
    \/ Tick /\ UNCHANGED <<symVars, fetchVars, chromeVars, normVars>>

SpecLimiter2 == InitLimiter2 /\ [][NextLimiter2]_vars

\* _convert_stock_code applied to an input, and to its own output
NextSymbol ==
    \/ ConvertOnce /\ UNCHANGED <<limVars, fetchVars, chromeVars, normVars>>
    \/ ConvertAgain /\ UNCHANGED <<limVars, fetchVars, chromeVars, normVars>>

SpecSymbol == InitSymbol /\ [][NextSymbol]_vars

InitFetch == FetchInit /\ LimInit(Threads1) /\ SymIdle /\ ChromeOff /\ NormIdle

\* one caller using a LongbridgeFetcher
NextFetch ==
    \/ FetchRawCall /\ UNCHANGED <<limVars, symVars, chromeVars, normVars, rtVars, wlVars>>
    \/ FetchEnter
            /\ UNCHANGED <<chromeVars, normVars, rtVars, wlVars, limVars, symVars, fetchConst, fop, fargs, attempt,
                           waits, upErr, fresult, opCalls, opReqs, fops>>
    \/ FetchAcquire
            /\ UNCHANGED <<chromeVars, normVars, rtVars, wlVars, symVars, fetchConst, fop, fargs, attempt, waits,
                           upErr, exc, fresult, opCalls, opReqs, fops>>
    \/ FetchParse
            /\ UNCHANGED <<chromeVars, normVars, rtVars, wlVars, limVars, symVars, fetchConst, fop, fargs, attempt,
                           waits, upErr, fresult, opCalls, opReqs, fops>>
    \/ FetchUpstreamOk
            /\ UNCHANGED <<chromeVars, normVars, rtVars, wlVars, limVars, symVars, fetchConst, fop, fargs, attempt,
                           waits, opReqs, fops>>
    \/ FetchUpstreamFail
            /\ UNCHANGED <<chromeVars, normVars, rtVars, wlVars, limVars, symVars, fetchConst, fop, fargs, attempt,
                           waits, opReqs, fops>>
    \/ FetchTenacity
            /\ UNCHANGED <<chromeVars, normVars, rtVars, wlVars, limVars, symVars, fetchConst, fop, fargs, upErr,
                           opCalls, opReqs, fops>>
    \/ FetchDone /\ UNCHANGED <<chromeVars, normVars, limVars, symVars, fetchConst, fops>>
    \/ Tick /\ UNCHANGED <<symVars, fetchVars, chromeVars, normVars>>

SpecFetch == InitFetch /\ [][NextFetch]_vars

others == <<limVars, symVars, fetchVars, normVars>>

InitCache == CacheInit /\ ScrapeInit /\ LimIdle /\ SymIdle /\ FetchOff /\ NormIdle

\* the cache file used through its two methods
NextCache ==
    \/ CacheSave /\ UNCHANGED <<scrapeVars, others>>
    \/ CacheRead /\ UNCHANGED <<scrapeVars, others>>
    \/ DayChange /\ UNCHANGED <<scrapeVars, others>>

SpecCache == InitCache /\ [][NextCache]_vars

InitChrome == CacheInit /\ ScrapeInit /\ LimIdle /\ SymIdle /\ FetchOff /\ NormIdle

\* one caller using a ChromeFetcher
NextChrome ==
    \/ SectorsCall /\ UNCHANGED others
    \/ Connect /\ UNCHANGED others
    \/ Goto /\ UNCHANGED others
    \/ Extract /\ UNCHANGED others
    \/ HasNext /\ UNCHANGED others
    \/ Click /\ UNCHANGED others
    \/ SaveAfterLoop /\ UNCHANGED others
    \/ Close /\ UNCHANGED others
    \/ SectorsDone /\ UNCHANGED others
    \/ DayChange /\ UNCHANGED <<scrapeVars, others>>

SpecChrome == InitChrome /\ [][NextChrome]_vars

\* the steps of a call under way: the calling thread goes on to the next
\* statement, and every browser call it makes returns or raises
CallStep ==
    (Connect \/ Goto \/ Extract \/ HasNext \/ Click \/ SaveAfterLoop \/ Close)
        /\ UNCHANGED others

SpecChromeFair == InitChrome /\ [][NextChrome]_vars /\ WF_vars(CallStep)

InitRealtime == FetchInit /\ LimInit(Threads1) /\ SymIdle /\ ChromeOff /\ NormIdle

\* one caller asking a LongbridgeFetcher for realtime quotes
NextRealtime ==
    \/ QuoteBatchCall /\ UNCHANGED <<limVars, symVars, chromeVars, normVars>>
    \/ QuoteBatchEnter /\ UNCHANGED <<limVars, symVars, chromeVars, normVars>>
    \/ RealtimeAcquire /\ UNCHANGED <<symVars, chromeVars, normVars>>
    \/ QuoteBatchQuoteOk /\ UNCHANGED <<limVars, symVars, chromeVars, normVars>>
    \/ QuoteBatchQuoteFail /\ UNCHANGED <<limVars, symVars, chromeVars, normVars>>
    \/ QuoteIndexesCall /\ UNCHANGED <<limVars, symVars, chromeVars, normVars>>
    \/ QuoteIndexesEnter /\ UNCHANGED <<limVars, symVars, chromeVars, normVars>>
    \/ QuoteIndexesOk /\ UNCHANGED <<limVars, symVars, chromeVars, normVars>>
    \/ QuoteIndexesFail /\ UNCHANGED <<limVars, symVars, chromeVars, normVars>>
    \/ FetchDone /\ UNCHANGED <<limVars, symVars, chromeVars, normVars, fetchConst, fops>>
    \/ Clock /\ UNCHANGED <<symVars, fetchVars, chromeVars, normVars>>

SpecRealtime == InitRealtime /\ [][NextRealtime]_vars

InitWatch == FetchInit /\ LimInit(Threads1) /\ SymIdle /\ ChromeOff /\ NormIdle

\* one caller reading watchlist groups through a LongbridgeFetcher
NextWatch ==
    \/ WatchCall /\ UNCHANGED <<limVars, symVars, chromeVars, normVars>>
    \/ WatchEnter /\ UNCHANGED <<limVars, symVars, chromeVars, normVars>>
    \/ WatchAcquire /\ UNCHANGED <<symVars, chromeVars, normVars>>
    \/ WatchUpstreamOk /\ UNCHANGED <<limVars, symVars, chromeVars, normVars>>
    \/ WatchUpstreamFail /\ UNCHANGED <<limVars, symVars, chromeVars, normVars>>
    \/ FetchDone /\ UNCHANGED <<limVars, symVars, chromeVars, normVars, fetchConst, fops>>
    \/ Clock /\ UNCHANGED <<symVars, fetchVars, chromeVars, normVars>>

SpecWatch == InitWatch /\ [][NextWatch]_vars

InitNormalize == NormInit /\ LimIdle /\ SymIdle /\ FetchOff /\ ChromeOff

\* _normalize_data applied to a DataFrame
NextNormalize ==
    \/ NormalizeData /\ UNCHANGED <<limVars, symVars, fetchVars, chromeVars>>

SpecNormalize == InitNormalize /\ [][NextNormalize]_vars

-----------------------------------------------------------------------------
(* Properties                                                               *)

\* C1: with a single thread calling acquire() on a limiter of max_requests Q
\* and time_window W, no interval of length W ever holds more than Q of the
\* recorded request timestamps.
C1_WindowQuota ==
    \A s \in 0..MaxTime :
        Cardinality({i \in DOMAIN history :
                        s <= history[i] /\ history[i] <= s + TimeWindow})
            <= MaxRequests

\* an acquire() found the window full, slept, and recorded its timestamp
C1_Witness ==
    /\ slept > 0
    /\ Len(history) > MaxRequests
    /\ \A t \in DOMAIN tpc : tpc[t] = "idle"

\* C2: when history_candlesticks_by_date fails with a timeout or connection
\* error, _fetch_raw_data is attempted again, up to 3 attempts in total, with
\* non-decreasing waits of 2 to 30 seconds between the attempts; so a call
\* that ends in failure after such an error has used all 3 attempts.
C2_TransientRetried ==
    (fop = "fetch_raw" /\ fpc = "failed"
        /\ upErr.type \in {"TimeoutError", "ConnectionError"}
        /\ upErr.msg \in {WTimedOut, WRefused})
    => /\ attempt = 3
       /\ Len(waits) = 2
       /\ \A i \in DOMAIN waits : waits[i] >= 2 /\ waits[i] <= 30
       /\ \A i \in 1..(Len(waits) - 1) : waits[i] <= waits[i + 1]

\* the messages of the model that hold a quota keyword once lower-cased
C3_QuotaMessages ==
    { WQuota, WQuotaUp, WLimit, WXianLiu, WPeiE,
      WPermission \o <<" ">> \o WQuota, WTimedOut \o <<" ">> \o WLimit }

\* C3: when history_candlesticks_by_date fails with a message holding a quota
\* keyword, _fetch_raw_data raises RateLimitError after exactly one attempt:
\* no retry, no wait and no further upstream call.
C3_QuotaNoRetry ==
    (fop = "fetch_raw" /\ upErr.type # None /\ upErr.msg \in C3_QuotaMessages)
    => /\ attempt = 1
       /\ opCalls = 1
       /\ waits = <<>>
       /\ fpc \in {"raised", "failed"}
       /\ exc = "RateLimitError"
       /\ fpc = "failed" => fresult = "RateLimitError"

\* a timeout whose text holds 'limit' reached the caller as RateLimitError
C3_Witness ==
    /\ fop = "fetch_raw" /\ fpc = "failed"
    /\ upErr = [type |-> "TimeoutError", msg |-> WTimedOut \o <<" ">> \o WLimit]
    /\ fresult = "RateLimitError"

\* C4: without an initialized handle _fetch_raw_data fails on its first
\* attempt with DataFetchError, is not retried, never invokes the upstream
\* API and leaves the limiter's timestamp queue as it was.
C4_NoHandleFailsFast ==
    api = None =>
        /\ requests = <<>> /\ history = <<>>
        /\ fop = "fetch_raw" =>
            /\ fpc \in {"body", "raised", "failed"}
            /\ attempt = 1
            /\ waits = <<>>
            /\ opCalls = 0
            /\ requests = opReqs
            /\ fpc \in {"raised", "failed"} => exc = "DataFetchError"
            /\ fpc = "failed" => fresult = "DataFetchError"

\* a fetcher with all credentials whose QuoteContext could not be created
\* has failed a call
C4_Witness ==
    /\ api = None
    /\ \A n \in CredNames : creds[n]
    /\ fop = "fetch_raw" /\ fpc = "failed" /\ fresult = "DataFetchError"

\* C5: every page, context and browser connection a call of
\* get_industry_sectors opened is closed by the time the call returns, also
\* when the attachment fails part-way and when a close itself raises.
C5_AllClosedOnReturn ==
    cpc = "returned" => \A k \in Kinds : res[k] # "open"

\* C6: symbol normalization is idempotent: converting the result of
\* _convert_stock_code again returns it unchanged, for every input.
C6_Idempotent == symStep = 2 => symOut2 = symOut

\* a padded lower-case code without suffix went through both conversions
C6_Witness ==
    /\ symStep = 2
    /\ ~HasDot(symIn)
    /\ Strip(symIn) # symIn
    /\ Upper(symIn) # symIn

Str600519 == <<"6","0","0","5","1","9">>
Str000001 == <<"0","0","0","0","0","1">>
Str700 == <<"7","0","0">>
StrAAPL == <<"A","A","P","L">>

\* C7: an input without '.' gets exactly one suffix appended to its stripped,
\* upper-cased form, by the first matching rule: numeric with prefix
\* 600/601/603/688 -> .SH; prefix 000/002/300 -> .SZ; other numeric -> .HK;
\* anything else -> .US; 600519, 000001, 700, AAPL give 600519.SH,
\* 000001.SZ, 700.HK, AAPL.US.
C7_SuffixRules ==
    (symStep >= 1 /\ ~HasDot(symIn)) =>
        LET code == Upper(Strip(symIn))
            numeric == code # <<>> /\ \A i \in DOMAIN code : code[i] \in Digits
            pre == IF Len(code) >= 3 THEN SubSeq(code, 1, 3) ELSE <<>>
        IN  /\ Len(symOut) = Len(code) + 3
            /\ SubSeq(symOut, 1, Len(code)) = code
            /\ Cardinality({i \in DOMAIN symOut : symOut[i] = "."}) = 1
            /\ LET sfx == SubSeq(symOut, Len(code) + 1, Len(symOut)) IN
                /\ (numeric /\ pre \in ShPrefixes) => sfx = <<".","S","H">>
                /\ (numeric /\ pre \notin ShPrefixes /\ pre \in SzPrefixes)
                        => sfx = <<".","S","Z">>
                /\ (numeric /\ pre \notin ShPrefixes /\ pre \notin SzPrefixes)
                        => sfx = <<".","H","K">>
                /\ ~numeric => sfx = <<".","U","S">>
            /\ symIn = Str600519 => symOut = Str600519 \o <<".","S","H">>
            /\ symIn = Str000001 => symOut = Str000001 \o <<".","S","Z">>
            /\ symIn = Str700 => symOut = Str700 \o <<".","H","K">>
            /\ symIn = StrAAPL => symOut = StrAAPL \o <<".","U","S">>

\* the Shenzhen example 000001 was converted
C7_Witness == symStep >= 1 /\ symIn = Str000001 /\ symOut = Str000001 \o SfxSZ

\* C8: _get_cached_data after a completed _save_cached_data(rows) on the same
\* calendar date returns rows equal to those written; a read on another date
\* than the file's returns None; a read leaves the file as it was.
C8_RoundTrip ==
    cacheOp.op = "read" =>
        /\ cacheFile = cacheOp.before
        /\ (wrote.ok /\ wrote.day = cacheOp.day)
                => cacheOp.result = [some |-> TRUE, v |-> wrote.rows]
        /\ (cacheOp.before.kind = "json" /\ cacheOp.before.date # cacheOp.day)
                => ~cacheOp.result.some

\* rows were written and read back on the same day
C8_Witness ==
    /\ cacheOp.op = "read"
    /\ wrote.ok /\ wrote.day = cacheOp.day /\ Len(wrote.rows) = 2
    /\ cacheOp.result.some /\ cacheOp.result.v = wrote.rows

\* C9: when an extraction returns rows whose names are a strict superset of
\* the names accumulated so far, exactly the rows with not yet collected
\* names are appended, the collected rows stay as they are, and the
\* accumulated count afterwards is the size of the union of the names.
C9_DedupUnion ==
    [][(cpc = "extract" /\ lastData'.some
            /\ NamesOf(all_sectors) \subseteq NamesOf(lastData'.v)
            /\ NamesOf(all_sectors) # NamesOf(lastData'.v))
        => /\ SubSeq(all_sectors', 1, Len(all_sectors)) = all_sectors
           /\ \A i \in (Len(all_sectors) + 1)..Len(all_sectors') :
                all_sectors'[i].name \notin NamesOf(all_sectors)
           /\ Len(all_sectors')
                = Cardinality(NamesOf(all_sectors) \cup NamesOf(lastData'.v))
      ]_vars

\* C10: when the cache file is present and dated today, get_industry_sectors
\* returns the cached rows at once: no attach, navigation, extraction or
\* close, and no cache write.
C10_CacheHitSkipsBrowser ==
    callHit =>
        /\ cpc = "returned"
        /\ callOps = {}
        /\ res = NoRes
        /\ cacheFile.kind = "json"
        /\ cresult.some
        /\ cresult.v = [i \in DOMAIN cacheFile.data |->
                            [name |-> cacheFile.data[i][2],
                             val |-> cacheFile.data[i][4]]]

\* a call found the rows a former call had saved the same day
C10_Witness ==
    /\ callHit /\ cpc = "returned"
    /\ cresult.some /\ Len(cresult.v) = 2
    /\ cacheFile.date = today

\* C11: when the attachment to the remote debugging endpoint fails (the
\* automation library missing included), get_industry_sectors returns an
\* empty list without raising, navigates nowhere, extracts nothing and does
\* not write the cache.
C11_AttachFailureEmpty ==
    [][(cpc = "connect" /\ cpc' # "connect" /\ res'["page"] # "open")
        => /\ cpc' = "returned"
           /\ cresult' = [some |-> TRUE, v |-> <<>>]
           /\ callOps' \subseteq {"attach"}
           /\ extracts' = 0 /\ page_num' = 0 /\ all_sectors' = <<>>
           /\ cacheFile' = cacheFile /\ wrote' = wrote
      ]_vars

\* a call whose attachment broke at new_context() has returned []
C11_Witness ==
    /\ cpc = "returned" /\ ~callHit
    /\ callOps = {"attach"}
    /\ res["browser"] = "open" /\ res["context"] = "none"
    /\ cresult = [some |-> TRUE, v |-> <<>>]

\* a call made without the automation library has returned []
C11_WitnessNoLibrary ==
    /\ cpc = "returned" /\ ~callHit
    /\ ~pwInstalled /\ callOps = {}
    /\ cresult = [some |-> TRUE, v |-> <<>>]

RECURSIVE Flatten(_)
Flatten(ss) == IF ss = <<>> THEN <<>> ELSE Head(ss) \o Flatten(Tail(ss))

\* C13: in get_realtime_quote_batch the filtered list holds, in input order,
\* the normalized symbols that end in .SH or .SZ; every quote() call carries
\* at least 1 and at most 500 symbols, and the batches, concatenated in call
\* order, are the filtered list: a prefix of it after each call, the whole of
\* it when the quotes are returned (nothing dropped, nothing sent twice).
C13_Batches ==
    [][(fop = "quote_batch" /\ fop' = "quote_batch")
        => /\ (fpc = "body" /\ fpc' # "body" /\ api # None) =>
                LET conv == [i \in DOMAIN symbols |-> ConvertStockCode(symbols[i])]
                    keep(x) == \/ SubSeq(x, Len(x) - 2, Len(x)) = <<".", "S", "H">>
                               \/ SubSeq(x, Len(x) - 2, Len(x)) = <<".", "S", "Z">>
                IN  lbsyms' = SelectSeq(conv, keep) /\ sent = <<>>
           /\ sent' # sent =>
                LET batch == sent'[Len(sent')]
                    all == Flatten(sent')
                IN  /\ sent' = Append(sent, batch)
                    /\ lbsyms' = lbsyms
                    /\ Len(batch) <= 500
                    /\ Len(batch) >= 1
                    /\ Len(all) <= Len(lbsyms)
                    /\ all = SubSeq(lbsyms, 1, Len(all))
                    /\ fresult' = "dict" => all = lbsyms
      ]_vars

\* 503 symbols, 502 of them mainland codes, went out as batches of 500 and 2
C13_Witness ==
    /\ fop = "quote_batch" /\ fpc = "returned" /\ fresult = "dict"
    /\ Len(symbols) = 503
    /\ Len(sent) = 2 /\ Len(sent[1]) = 500 /\ Len(sent[2]) = 2

\* C14: when the handle is unavailable, or no input symbol normalizes to a
\* .SH/.SZ code, get_realtime_quote_batch returns None: nothing is raised,
\* quote() is not invoked and the limiter's queue gets no timestamp.
C14_NothingToFetch ==
    (/\ fop = "quote_batch"
     /\ \/ api = None
        \/ \A i \in DOMAIN symbols :
              LET x == ConvertStockCode(symbols[i]) IN
                /\ SubSeq(x, Len(x) - 2, Len(x)) # <<".", "S", "H">>
                /\ SubSeq(x, Len(x) - 2, Len(x)) # <<".", "S", "Z">>)
    => /\ fpc \in {"body", "returned"}
       /\ exc = None
       /\ fresult = None
       /\ opCalls = 0 /\ sent = <<>>
       /\ requests = opReqs
       /\ \A t \in DOMAIN tpc : tpc[t] = "idle"

\* a fetcher with a handle and a used limiter was asked for Hong Kong and US
\* symbols only, and returned None
C14_Witness ==
    /\ fop = "quote_batch" /\ fpc = "returned"
    /\ api # None
    /\ Len(symbols) = 3
    /\ fresult = None /\ opCalls = 0
    /\ requests # <<>> /\ requests = opReqs

\* a fetcher without a handle was asked for mainland symbols, and returned
\* None
C14_WitnessNoHandle ==
    /\ fop = "quote_batch" /\ fpc = "returned"
    /\ api = None
    /\ Len(symbols) = 4
    /\ fresult = None /\ opCalls = 0

\* C15: get_watchlist_from_group resolves the target group by group_name
\* when one is given (group_id is then ignored), else by group_id when one is
\* given, else as the first group the upstream returned; when that group
\* exists and has members, the call returns its member symbols in order.
C15_GroupResolution ==
    (/\ fop = "watchlist" /\ fpc \in {"returned", "failed"}
     /\ wresp.kind = "list" /\ wresp.groups # <<>>)
    => LET gs == wresp.groups
           named == wargs.group_name.some /\ wargs.group_name.v # <<>>
           hits == IF named
                   THEN {i \in DOMAIN gs : gs[i].name = wargs.group_name.v}
                   ELSE IF wargs.group_id.some
                   THEN {i \in DOMAIN gs : gs[i].id = wargs.group_id.v}
                   ELSE {1}
       IN  \A k \in hits :
             ((\A j \in hits : k <= j) /\ gs[k].securities # <<>>)
                => /\ fpc = "returned"
                   /\ wret = gs[k].securities

\* C16: get_watchlist_from_group fails with DataFetchError whenever the group
\* it resolved, by name or by id, has no members.
C16_EmptyGroupFails ==
    (/\ fop = "watchlist" /\ fpc \in {"returned", "failed"}
     /\ wresp.kind = "list" /\ wresp.groups # <<>>)
    => LET gs == wresp.groups
           named == wargs.group_name.some /\ wargs.group_name.v # <<>>
           hits == IF named
                   THEN {i \in DOMAIN gs : gs[i].name = wargs.group_name.v}
                   ELSE IF wargs.group_id.some
                   THEN {i \in DOMAIN gs : gs[i].id = wargs.group_id.v}
                   ELSE {}
       IN  \A k \in hits :
             ((\A j \in hits : k <= j) /\ gs[k].securities = <<>>)
                => /\ fpc = "failed"
                   /\ fresult = "DataFetchError"

C18_PermissionMessages == {WPermission, WQuanXian, WWuQuanXian}

\* C18: when history_candlesticks_by_date fails with a message holding an
\* entitlement keyword and no quota keyword, the failure is surfaced at once,
\* after exactly one attempt, as a PermissionError: a kind of its own, neither
\* RateLimitError nor the generic DataFetchError.
C18_PermissionError ==
    (fop = "fetch_raw" /\ upErr.type # None /\ upErr.msg \in C18_PermissionMessages)
    => /\ attempt = 1
       /\ opCalls = 1
       /\ waits = <<>>
       /\ fpc \in {"raised", "failed"}
       /\ exc = "PermissionError"
       /\ exc \notin {"RateLimitError", "DataFetchError"}
       /\ fpc = "failed" => fresult = "PermissionError"

\* C19: the failures of every upstream call are classified and surfaced: when
\* quote() in get_realtime_quote_batch or calc_indexes() in
\* get_realtime_quote_with_indexes fails with a message holding a quota
\* keyword, the caller gets a RateLimitError, not an empty or absent result.
C19_RealtimeFailureSurfaced ==
    (/\ fop \in {"quote_batch", "quote_indexes"}
     /\ upErr.type # None
     /\ upErr.msg \in {WQuota, WQuotaUp, WLimit, WXianLiu, WPeiE})
    => /\ fpc = "failed"
       /\ exc = "RateLimitError"
       /\ fresult = "RateLimitError"

C21_CacheWrite ==
    /\ []((cpc = "returned" /\ ~callHit)
            => ("save" \in callOps
                    <=> /\ "close" \in callOps
                        /\ "except" \notin callOps
                        /\ Len(all_sectors) >= 1))
    /\ [][(\/ cacheFile' # cacheFile
           \/ wrote' # wrote
           \/ "save" \in callOps' /\ "save" \notin callOps)
          => /\ cpc = "save" /\ cpc' = "close"
             /\ "except" \notin callOps
             /\ Len(all_sectors) >= 1
             /\ "save" \notin callOps /\ "save" \in callOps'
             /\ (cacheFile' # cacheFile /\ cacheFile'.kind = "json")
                    => /\ cacheFile'.date = today
                       /\ Len(cacheFile'.data) = Len(all_sectors)
                       /\ \A i \in DOMAIN all_sectors :
                            cacheFile'.data[i][2] = all_sectors[i].name
         ]_vars

\* on the second day a call went through two pages and wrote its two rows
C21_Witness ==
    /\ cpc = "returned" /\ "save" \in callOps
    /\ extracts = 2 /\ Len(all_sectors) = 2
    /\ today = 2
    /\ cacheFile.kind = "json" /\ cacheFile.date = 2
    /\ wrote = [ok |-> TRUE, rows |-> all_sectors, day |-> 2]

\* a scrape ended without rows and left the file of the day before as it was
C21_WitnessNoRows ==
    /\ cpc = "returned" /\ "close" \in callOps /\ "except" \notin callOps
    /\ all_sectors = <<>> /\ "save" \notin callOps
    /\ cacheFile.kind = "json" /\ cacheFile.date < today

\* C22: the sector name is a key of the rows of one scrape: at every point
\* of the loop, in the list returned and in the rows written to the cache, no
\* two accumulated rows have the same name, whatever the extractions return
\* (an extraction that lists one name twice included).
C22_NameIsKey ==
    /\ \A i, j \in DOMAIN all_sectors :
            all_sectors[i].name = all_sectors[j].name => i = j
    /\ (cpc = "returned" /\ ~callHit) =>
            \A i, j \in DOMAIN cresult.v :
                cresult.v[i].name = cresult.v[j].name => i = j
    /\ wrote.ok =>
            \A i, j \in DOMAIN wrote.rows :
                wrote.rows[i].name = wrote.rows[j].name => i = j

C24_SuffixedUnchanged == (symStep >= 1 /\ HasDot(symIn)) => symOut = symIn

\* C24, amended: an input that holds a '.' gets no suffix appended: the
\* result is the input without its leading and trailing whitespace, each
\* letter in upper case; it is the input itself when the input has neither
\* surrounding whitespace nor a lower-case letter.
C24_SuffixedCanonical ==
    (symStep >= 1 /\ HasDot(symIn)) =>
        LET n == Len(symIn)
            lead == CHOOSE k \in 0..n :
                        /\ \A i \in 1..k : symIn[i] = " "
                        /\ k < n /\ symIn[k + 1] # " "
            trail == CHOOSE k \in 0..n :
                        /\ \A i \in (n - k + 1)..n : symIn[i] = " "
                        /\ k < n /\ symIn[n - k] # " "
            big == [c \in {"a", "h", "k", "l", "p", "s", "z"} |->
                        CASE c = "a" -> "A" [] c = "h" -> "H" [] c = "k" -> "K"
                          [] c = "l" -> "L" [] c = "p" -> "P" [] c = "s" -> "S"
                          [] c = "z" -> "Z"]
        IN  /\ Len(symOut) = n - lead - trail
            /\ \A i \in 1..(n - lead - trail) :
                    symOut[i] = IF symIn[i + lead] \in DOMAIN big
                                THEN big[symIn[i + lead]]
                                ELSE symIn[i + lead]
            /\ (lead = 0 /\ trail = 0 /\ \A i \in 1..n : symIn[i] \notin DOMAIN big)
                    => symOut = symIn

\* the lower-case Hong Kong code 700.hk came back as 700.HK
C24_Witness ==
    /\ symStep >= 1
    /\ symIn = <<"7","0","0",".","h","k">>
    /\ symOut = <<"7","0","0",".","H","K">>

\* C25: in the pagination loop the next-page control is looked for and
\* clicked only after an extraction that added at least one new name, and
\* clicked only when the control was found; an extraction without rows or
\* without a new name ends the loop, and once the loop has ended (the control
\* being absent included) the call clicks and extracts no more.
C25_ClickOnlyAfterNew ==
    [][/\ (cpc' = "click" /\ cpc # "click") => cpc = "has_next"
       /\ (cpc' = "has_next" /\ cpc # "has_next")
            => /\ cpc = "extract" /\ extracts' = extracts + 1
               /\ lastData'.some
               /\ \E i \in DOMAIN lastData'.v :
                    /\ \A j \in DOMAIN all_sectors :
                            all_sectors[j].name # lastData'.v[i].name
                    /\ \E j \in DOMAIN all_sectors' :
                            all_sectors'[j] = lastData'.v[i]
       /\ (/\ extracts' = extracts + 1 /\ lastData'.some
           /\ \A i \in DOMAIN lastData'.v :
                \E j \in DOMAIN all_sectors :
                    all_sectors[j].name = lastData'.v[i].name)
            => cpc' = "save" /\ all_sectors' = all_sectors
       /\ (cpc \in {"save", "close", "returned"} /\ cpc' # "idle")
            => /\ cpc' \in {"save", "close", "returned"}
               /\ extracts' = extracts
               /\ all_sectors' = all_sectors
               /\ callOps' \ callOps \subseteq {"save", "close"}
      ]_vars

\* a call clicked to a second page that showed nothing new, and ended there
C25_Witness ==
    /\ cpc = "returned" /\ "close" \in callOps /\ "except" \notin callOps
    /\ "click" \in callOps
    /\ extracts = 2 /\ page_num = 2
    /\ Len(all_sectors) = 1

\* the timestamps of h that lie in the window of length TimeWindow from s
C26_InWindow(h, s) == {i \in DOMAIN h : s <= h[i] /\ h[i] <= s + TimeWindow}

\* C26: two threads sharing one RateLimiter, which takes no lock, break the
\* quota only by interleaving their acquire() calls: as long as no two calls
\* have overlapped every window holds at most Q timestamps, and interleavings
\* are reachable that leave more than Q in one window.
C26_QuotaNeedsLock ==
    ~raced => \A s \in 0..MaxTime :
                Cardinality(C26_InWindow(history, s)) <= MaxRequests

\* both threads passed the count check before either appended: Q + 1
\* timestamps at one instant, nobody having slept
C26_Witness ==
    /\ raced /\ slept = 0
    /\ Len(history) = MaxRequests + 1
    /\ \A i \in DOMAIN history : history[i] = history[1]
    /\ \A t \in Threads2 : tpc[t] = "idle"

\* both threads woke from the same wait and appended: the quota, kept until
\* then, is broken by the two timestamps of the sleepers
C26_WitnessWake ==
    /\ raced /\ slept = 2
    /\ Len(history) = MaxRequests + 2
    /\ \A s \in 0..MaxTime :
            Cardinality(C26_InWindow(SubSeq(history, 1, MaxRequests + 1), s))
                <= MaxRequests
    /\ \E s \in 0..MaxTime :
            Cardinality(C26_InWindow(history, s)) > MaxRequests
    /\ history[MaxRequests + 1] = history[MaxRequests + 2]

\* C27: every upstream invocation is preceded, within its operation, by an
\* acquire() of its own, so the upstream invocations never outnumber the
\* timestamps the limiter recorded; stated for the first operation of a
\* fetcher, whose acquire() calls are all the limiter has seen, and in
\* particular for get_realtime_quote_batch with more than 500 kept symbols.
C27_AcquirePerInvocation ==
    fops = 1 => opCalls <= Len(history)

\* the distinct sector names the site can return
C28_SiteNames == {r.name : r \in SectorRows}

\* C28: with n distinct sector names on the site, a call of
\* get_industry_sectors makes at most n + 1 extractions, whatever the pager
\* does (a control that is always there and pages that repeat included), and
\* a call that has started then returns.
C28_LoopTerminates ==
    /\ [](extracts <= Cardinality(C28_SiteNames) + 1)
    /\ (cpc \in {"connect", "goto", "extract", "has_next", "click"})
            ~> (cpc = "returned")

\* a call found one new name on each of two pages, clicked on, and stopped at
\* the third extraction, which showed nothing new
C28_Witness ==
    /\ cpc = "returned" /\ "except" \notin callOps
    /\ extracts = Cardinality(C28_SiteNames) + 1
    /\ page_num = 3
    /\ Len(all_sectors) = 2

\* C29: when an error is thrown mid-scrape (in the navigation, an extraction,
\* the look for the control or the click), get_industry_sectors raises
\* nothing: it keeps the rows accumulated before the error as they are,
\* closes, and returns exactly those rows, without writing the cache.
C29_PartialOnError ==
    /\ []("except" \in callOps
            => /\ cpc \in {"close", "returned"}
               /\ "save" \notin callOps
               /\ cpc = "returned" => cresult = [some |-> TRUE, v |-> all_sectors])
    /\ [][("except" \in callOps' /\ cpc' # "idle")
            => /\ all_sectors' = all_sectors
               /\ cacheFile' = cacheFile
               /\ wrote' = wrote
         ]_vars

\* the click after the first page raised: the call returned the two rows of
\* that page and wrote no cache
C29_Witness ==
    /\ cpc = "returned" /\ "except" \in callOps
    /\ extracts = 1 /\ "click" \in callOps
    /\ Len(all_sectors) = 2
    /\ cresult = [some |-> TRUE, v |-> all_sectors]
    /\ cacheFile.kind = "absent"

\* the navigation raised: the call returned [] and wrote no cache
C29_WitnessNoRows ==
    /\ cpc = "returned" /\ "except" \in callOps
    /\ extracts = 0
    /\ cresult = [some |-> TRUE, v |-> <<>>]
    /\ cacheFile.kind = "absent"

\* the texts of the model in which a quota keyword occurs, in any case
C30_QuotaTexts ==
    { m \in Messages \cup WatchMessages :
        \E i \in DOMAIN m :
            \/ /\ i + 4 <= Len(m)
               /\ SubSeq(m, i + 1, i + 4) = <<"u","o","t","a">>
               /\ m[i] \in {"q", "Q"}
            \/ /\ i + 4 <= Len(m)
               /\ SubSeq(m, i, i + 4) = <<"l","i","m","i","t">>
            \/ /\ i + 1 <= Len(m)
               /\ SubSeq(m, i, i + 1) \in { <<"xian","liu">>, <<"pei","e">> } }

\* C30: a failure of the upstream call of _fetch_raw_data or
\* get_watchlist_from_group is classified by the keywords of its message,
\* quota keywords first, whatever the type of the exception: a message with a
\* quota keyword gives RateLimitError (also when it holds a permission
\* keyword too, also for a timeout or connection error that says 'limit'),
\* every other message DataFetchError; the operation ends with exactly that
\* error.
C30_KeywordPrecedence ==
    (fop \in {"fetch_raw", "watchlist"} /\ upErr.type # None)
    => /\ fpc \in {"raised", "failed"}
       /\ exc \in {"RateLimitError", "DataFetchError"}
       /\ exc = "RateLimitError" <=> upErr.msg \in C30_QuotaTexts
       /\ upErr.msg = WPermission \o <<" ">> \o WQuota => exc = "RateLimitError"
       /\ upErr.msg = WTimedOut \o <<" ">> \o WLimit => exc = "RateLimitError"
       /\ fpc = "failed" => fresult = exc

\* a connection error whose text holds a permission and a quota keyword
\* reached the caller as RateLimitError
C30_Witness ==
    /\ fop = "fetch_raw" /\ fpc = "failed"
    /\ upErr = [type |-> "ConnectionError",
                msg |-> WPermission \o <<" ">> \o WQuota]
    /\ fresult = "RateLimitError"

\* watchlist() failed with a text holding a permission and a quota keyword,
\* and get_watchlist_from_group raised RateLimitError
C30_WitnessWatchlist ==
    /\ fop = "watchlist" /\ fpc = "failed"
    /\ upErr.msg = WPermission \o <<" ">> \o WQuota
    /\ fresult = "RateLimitError"

=============================================================================
